---- MODULE Spec2Model ----
(***************************************************************************)
(* Model of the pokedex set-data builders:                                 *)
(*   src/fetch-sets.py       the remote (API) variant, resumable           *)
(*   src/build-sets-data.py  the local (file) variant                      *)
(*                                                                         *)
(* Four specifications share this module, one per part of the program:     *)
(*   Spec        the remote driver build_sets_data and main (runs, resume, *)
(*               per-set failure, checkpoint writes, process interruption) *)
(*   SpecFetch   one set's card fetch: the page loop and fetch_with_retry  *)
(*   SpecAgg     the two aggregations of one set's card list               *)
(*   SpecFilter  the two set listers' series filter                        *)
(* A specification leaves the variables of the other parts at their idle   *)
(* values.                                                                 *)
(*                                                                         *)
(* Python strings are TLA+ strings, read character by character with Len   *)
(* and SubSeq.  A Python value that may be None (or a dict key that may be *)
(* missing) is a sequence of length 0 or 1: <<>> is None/missing.          *)
(***************************************************************************)
EXTENDS Integers, Sequences, FiniteSets, TLC

VARIABLES
  \* ---- remote driver (fetch-sets.py build_sets_data, main) ----
  sets,               \* the set list returned by fetch_all_sets
  disk,               \* the output file sets-data.json
  sets_data,          \* in-memory accumulated list of set records
  processed_set_ids,  \* ids indexed from the loaded artifact
  failed_sets,        \* failure list of this run
  idx,                \* position of the for loop in sets (1-based)
  pc,                 \* where the process is
  runs,               \* number of runs started so far
  \* history of the current run (not program state)
  fetched,            \* list positions whose cards were requested
  loaded,             \* what the run's initial load produced
  readable,           \* whether that load read a well-formed artifact
  lastSave,           \* "none", "ok" or "failed": latest checkpoint write
  lastWrite,          \* the list the latest checkpoint write was given
  \* ---- one set's card fetch (page loop, fetch_with_retry) ----
  totalCount,         \* result['totalCount'] of the set being fetched
  page,               \* page of the while loop
  pages,              \* pages requested so far, in order
  attempt,            \* loop variable of fetch_with_retry
  outcomes,           \* outcome of each request of the current call
  sleeps,             \* backoff waits of the current call, in order
  fpc,                \* where the fetch is
  ferr,               \* the error a call raised
  \* ---- aggregation of one set's cards ----
  cards,              \* the raw card list of the set
  local_out,          \* result of the local aggregation
  remote_out,         \* result of the remote aggregation
  \* ---- set listers ----
  all_sets,           \* the catalog's set descriptors
  series_filter,      \* the caller's filter
  local_sets,         \* result of load_sets
  remote_sets         \* result of fetch_all_sets

driverVars == <<sets, disk, sets_data, processed_set_ids, failed_sets, idx, pc,
                runs, fetched, loaded, readable, lastSave, lastWrite>>
fetchVars  == <<totalCount, page, pages, attempt, outcomes, sleeps, fpc, ferr>>
aggVars    == <<cards, local_out, remote_out>>
filterVars == <<all_sets, series_filter, local_sets, remote_sets>>
vars       == <<driverVars, fetchVars, aggVars, filterVars>>

----------------------------------------------------------------------------
(* Generic helpers *)

\* All sequences over S of length at most n.
SeqsUpTo(S, n) == UNION {[1..k -> S] : k \in 0..n}

\* The elements of a sequence, as a set.
Range(s) == {s[i] : i \in DOMAIN s}

\* Python's None / a missing dict key.
None == <<>>
Some(x) == <<x>>

\* str.lower() on the characters the model's strings use.
UpperChars == "ABCDEFGHIJKLMNOPQRSTUVWXYZ"
LowerChars == "abcdefghijklmnopqrstuvwxyz"

Char(s, i) == SubSeq(s, i, i)

UpperSet == {Char(UpperChars, i) : i \in 1..Len(UpperChars)}

LowerOf ==
  [c \in UpperSet |->
     Char(LowerChars, CHOOSE i \in 1..Len(UpperChars) : Char(UpperChars, i) = c)]

LowerChar(c) == IF c \in UpperSet THEN LowerOf[c] ELSE c

RECURSIVE StrLower(_)
StrLower(s) ==
  IF s = "" THEN "" ELSE LowerChar(Char(s, 1)) \o StrLower(SubSeq(s, 2, Len(s)))

----------------------------------------------------------------------------
(* Idle values of each part's variables *)

DriverIdle ==
  /\ sets = <<>> /\ disk = [state |-> "absent", data |-> <<>>]
  /\ sets_data = <<>> /\ processed_set_ids = {} /\ failed_sets = <<>>
  /\ idx = 1 /\ pc = "idle" /\ runs = 0
  /\ fetched = <<>> /\ loaded = <<>> /\ readable = FALSE
  /\ lastSave = "none" /\ lastWrite = <<>>

FetchIdle ==
  /\ totalCount = 0 /\ page = 1 /\ pages = <<>> /\ attempt = 0
  /\ outcomes = <<>> /\ sleeps = <<>> /\ fpc = "idle" /\ ferr = None

AggIdle ==
  /\ cards = <<>> /\ local_out = None /\ remote_out = None

FilterIdle ==
  /\ all_sets = <<>> /\ series_filter = [kind |-> "none"]
  /\ local_sets = None /\ remote_sets = None

----------------------------------------------------------------------------
(* The remote driver: fetch-sets.py build_sets_data and main *)

\* Bounds of the driver model.
MaxSets == 3
MaxRuns == 2

SetIds == {"A", "B", "C"}

\* A set descriptor as the driver reads it: set_info['id'], set_info['name'].
SetInfo(id) == [id |-> id, name |-> "Set " \o id]

\* The set lists the API can return (the driver does not check them).
SetLists == SeqsUpTo({SetInfo(i) : i \in SetIds}, MaxSets)

\* The record the driver builds for a set (lines 127-136); its 'pokemon'
\* list is the aggregation of SpecAgg and is not repeated here.
SetData(set_info) == [id |-> set_info.id, name |-> set_info.name]

\* str(e) of the errors a set's processing can raise inside the try block.
Errors == {"Timeout", "KeyError"}

\* What json.load and the id index (lines 107-116) make of the file.
LoadSetsData(d) == IF d.state = "json" THEN d.data ELSE <<>>
LoadProcessedIds(d) ==
  IF d.state = "json" THEN {d.data[i].id : i \in DOMAIN d.data} ELSE {}

JsonFile(data) == [state |-> "json", data |-> data]
CorruptFile == [state |-> "corrupt", data |-> <<>>]
AbsentFile == [state |-> "absent", data |-> <<>>]

\* Lines 100-116: list the sets, then load any previous progress.
\* fetch_all_sets raising (line 100 is outside every try) ends the run with
\* nothing changed: ListFails.
StartRun ==
  /\ pc = "idle"
  /\ runs < MaxRuns
  /\ runs' = runs + 1
  /\ sets' \in SetLists
  /\ sets_data' = LoadSetsData(disk)
  /\ processed_set_ids' = LoadProcessedIds(disk)
  /\ failed_sets' = <<>>
  /\ idx' = 1
  /\ pc' = "loop"
  /\ fetched' = <<>>
  /\ loaded' = LoadSetsData(disk)
  /\ readable' = (disk.state = "json")
  /\ lastSave' = "none"
  /\ lastWrite' = <<>>
  /\ UNCHANGED disk

ListFails ==
  /\ pc = "idle"
  /\ runs < MaxRuns
  /\ runs' = runs + 1
  /\ UNCHANGED <<sets, disk, sets_data, processed_set_ids, failed_sets, idx, pc,
                 fetched, loaded, readable, lastSave, lastWrite>>

\* Lines 118-122: the set is in the index built at load time; continue.
SkipSet ==
  /\ pc = "loop"
  /\ idx <= Len(sets)
  /\ sets[idx].id \in processed_set_ids
  /\ idx' = idx + 1
  /\ UNCHANGED <<sets, disk, sets_data, processed_set_ids, failed_sets, pc,
                 runs, fetched, loaded, readable, lastSave, lastWrite>>

\* Lines 124-145: the set is not in the index; enter the try block and
\* start requesting its cards.
BeginSet ==
  /\ pc = "loop"
  /\ idx <= Len(sets)
  /\ sets[idx].id \notin processed_set_ids
  /\ pc' = "fetching"
  /\ fetched' = Append(fetched, idx)
  /\ UNCHANGED <<sets, disk, sets_data, processed_set_ids, failed_sets, idx,
                 runs, loaded, readable, lastSave, lastWrite>>

\* SetFails with the loop left at the first failure (break for continue).
SetFailsBreaksLoop ==
  /\ pc = "fetching"
  /\ \E e \in Errors :
       failed_sets' = Append(failed_sets,
                             [id |-> sets[idx].id, name |-> sets[idx].name,
                              error |-> e])
  /\ pc' = "returned"
  /\ UNCHANGED <<sets, disk, sets_data, processed_set_ids, idx, runs, fetched,
                 loaded, readable, lastSave, lastWrite>>

\* Lines 203-209: anything raised in the try block before the append
\* (a fetch whose retries are exhausted, a malformed response, ...).
SetFails ==
  /\ pc = "fetching"
  /\ \E e \in Errors :
       failed_sets' = Append(failed_sets,
                             [id |-> sets[idx].id, name |-> sets[idx].name,
                              error |-> e])
  /\ idx' = idx + 1
  /\ pc' = "loop"
  /\ UNCHANGED <<sets, disk, sets_data, processed_set_ids, runs, fetched,
                 loaded, readable, lastSave, lastWrite>>

\* Lines 154-193: cards fetched and aggregated; the record is appended.
\* processed_set_ids is not updated.
SetSucceeds ==
  /\ pc = "fetching"
  /\ sets_data' = Append(sets_data, SetData(sets[idx]))
  /\ pc' = "saving"
  /\ UNCHANGED <<sets, disk, processed_set_ids, failed_sets, idx, runs,
                 fetched, loaded, readable, lastSave, lastWrite>>

\* SaveProgress writing the new record alone instead of the whole list.
SaveProgressLastOnly ==
  /\ pc = "saving"
  /\ disk' = JsonFile(<<sets_data[Len(sets_data)]>>)
  /\ lastSave' = "ok"
  /\ lastWrite' = sets_data
  /\ idx' = idx + 1
  /\ pc' = "loop"
  /\ UNCHANGED <<sets, sets_data, processed_set_ids, failed_sets, runs,
                 fetched, loaded, readable>>

\* Lines 196-199 and 209: the whole list is written over the file.
SaveProgress ==
  /\ pc = "saving"
  /\ disk' = JsonFile(sets_data)
  /\ lastSave' = "ok"
  /\ lastWrite' = sets_data
  /\ idx' = idx + 1
  /\ pc' = "loop"
  /\ UNCHANGED <<sets, sets_data, processed_set_ids, failed_sets, runs,
                 fetched, loaded, readable>>

\* Lines 200-201 and 209: the write raised; a warning is printed and the
\* loop goes on.  open() failing leaves the file as it was, a failure after
\* open(..., 'w') leaves a truncated file.
SaveProgressFails ==
  /\ pc = "saving"
  /\ disk' \in {disk, CorruptFile}
  /\ lastSave' = "failed"
  /\ lastWrite' = sets_data
  /\ idx' = idx + 1
  /\ pc' = "loop"
  /\ UNCHANGED <<sets, sets_data, processed_set_ids, failed_sets, runs,
                 fetched, loaded, readable>>

\* Line 211: the loop is over, build_sets_data returns to main.
Return ==
  /\ pc = "loop"
  /\ idx > Len(sets)
  /\ pc' = "returned"
  /\ UNCHANGED <<sets, disk, sets_data, processed_set_ids, failed_sets, idx,
                 runs, fetched, loaded, readable, lastSave, lastWrite>>

\* The process is gone: nothing of its memory is left.
ProcessEnds ==
  /\ pc' = "idle"
  /\ sets' = <<>> /\ sets_data' = <<>> /\ processed_set_ids' = {}
  /\ failed_sets' = <<>> /\ idx' = 1
  /\ fetched' = <<>> /\ loaded' = <<>> /\ readable' = FALSE
  /\ lastSave' = "none" /\ lastWrite' = <<>>
  /\ UNCHANGED runs

\* main, lines 227-251: the final write of the returned list, the summary,
\* and the end of the process.
FinalSave ==
  /\ pc = "returned"
  /\ disk' = JsonFile(sets_data)
  /\ ProcessEnds

\* main, lines 249-251: the final write raised and the process ends.
FinalSaveFails ==
  /\ pc = "returned"
  /\ disk' \in {disk, CorruptFile}
  /\ ProcessEnds

\* The process is killed (there is no other cancellation).  The file is as
\* the last write left it, or truncated when a write was under way.
Interrupt ==
  /\ pc \in {"loop", "fetching", "saving", "returned"}
  /\ disk' \in (IF pc \in {"saving", "returned"} THEN {disk, CorruptFile}
                ELSE {disk})
  /\ ProcessEnds

Init ==
  /\ sets = <<>>
  /\ disk \in {AbsentFile, CorruptFile, JsonFile(<<>>)}
  /\ sets_data = <<>> /\ processed_set_ids = {} /\ failed_sets = <<>>
  /\ idx = 1 /\ pc = "idle" /\ runs = 0
  /\ fetched = <<>> /\ loaded = <<>> /\ readable = FALSE
  /\ lastSave = "none" /\ lastWrite = <<>>
  /\ FetchIdle /\ AggIdle /\ FilterIdle

Next ==
  \/ (StartRun /\ UNCHANGED <<fetchVars, aggVars, filterVars>>)
  \/ (ListFails /\ UNCHANGED <<fetchVars, aggVars, filterVars>>)
  \/ (SkipSet /\ UNCHANGED <<fetchVars, aggVars, filterVars>>)
  \/ (BeginSet /\ UNCHANGED <<fetchVars, aggVars, filterVars>>)
  \/ (SetFails /\ UNCHANGED <<fetchVars, aggVars, filterVars>>)
  \/ (SetSucceeds /\ UNCHANGED <<fetchVars, aggVars, filterVars>>)
  \/ (SaveProgress /\ UNCHANGED <<fetchVars, aggVars, filterVars>>)
  \/ (SaveProgressFails /\ UNCHANGED <<fetchVars, aggVars, filterVars>>)
  \/ (Return /\ UNCHANGED <<fetchVars, aggVars, filterVars>>)
  \/ (FinalSave /\ UNCHANGED <<fetchVars, aggVars, filterVars>>)
  \/ (FinalSaveFails /\ UNCHANGED <<fetchVars, aggVars, filterVars>>)
  \/ (Interrupt /\ UNCHANGED <<fetchVars, aggVars, filterVars>>)

Spec == Init /\ [][Next]_vars

----------------------------------------------------------------------------
(* Properties of the remote driver *)

Ids(records) == {records[i].id : i \in DOMAIN records}

NoDuplicateIds(records) ==
  \A i, j \in DOMAIN records : i # j => records[i].id # records[j].id

\* The records this run has appended so far.
NewRecords == SubSeq(sets_data, Len(loaded) + 1, Len(sets_data))

InRun == pc \in {"loop", "fetching", "saving", "returned"}

\* C1 (resumability).  A run that started from a readable artifact requests
\* cards only for listed sets whose id the artifact does not hold, and after
\* every checkpoint write that succeeded, and at the return of a run whose
\* latest checkpoint write did not fail, the ids in the file are the loaded
\* ids together with the ids processed in this run, none of them twice.
C1_Resumability ==
  (InRun /\ readable) =>
    /\ \A k \in Range(fetched) :
         k \in DOMAIN sets /\ sets[k].id \notin Ids(loaded)
    /\ ((pc = "loop" /\ lastSave = "ok") \/ (pc = "returned" /\ lastSave # "failed"))
         => /\ disk.state = "json"
            /\ Ids(disk.data) = Ids(loaded) \cup Ids(NewRecords)
            /\ NoDuplicateIds(disk.data)

\* The processing of a set ends without its record having been appended,
\* the process still alive.
SetFailureStep == pc = "fetching" /\ pc' \notin {"saving", "idle"}

\* C2 (failure isolation).  A step in which the processing of a set ends
\* without its record having been appended, the process still alive, records
\* the set's id, name and error at the end of the failure list, leaves the
\* accumulated list and the file as they were and moves to the next list
\* position; and a run returns only after every position of the list has
\* been visited, each either skipped as already processed or attempted.
C2_FailureIsolation ==
  /\ [](pc = "returned" =>
          /\ idx = Len(sets) + 1
          /\ \A i \in DOMAIN sets :
               sets[i].id \in processed_set_ids \/ i \in Range(fetched))
  /\ [][SetFailureStep =>
          /\ pc' = "loop"
          /\ idx' = idx + 1
          /\ sets' = sets
          /\ \E e \in Errors :
               failed_sets' = Append(failed_sets,
                                     [id |-> sets[idx].id,
                                      name |-> sets[idx].name, error |-> e])
          /\ sets_data' = sets_data
          /\ disk' = disk]_vars

\* C2 witness.  A run returned after a set failed and a later, different set of the list
\* was fetched and appended; the failed set is in neither list nor file.
C2_Witness ==
  /\ pc = "returned"
  /\ Len(failed_sets) = 1
  /\ \E k1, k2 \in Range(fetched) :
       /\ k1 < k2
       /\ sets[k1].id = failed_sets[1].id
       /\ sets[k1].name = failed_sets[1].name
       /\ failed_sets[1].error = "Timeout"
       /\ sets[k2].id \in Ids(NewRecords)
       /\ sets[k1].id \notin Ids(sets_data)
       /\ disk.state = "json" /\ sets[k1].id \notin Ids(disk.data)

----------------------------------------------------------------------------
(* One set's card fetch: the page loop of build_sets_data (lines 138-152)  *)
(* and fetch_with_retry (lines 42-55), called once per page through        *)
(* fetch_cards_for_set (lines 74-78).                                      *)

\* Bound of the fetch model: the largest totalCount the server reports.
MaxTotal == 101

page_size == 50
max_retries == 3

\* requests.exceptions caught by fetch_with_retry (line 49), and one that
\* is not (it leaves fetch_with_retry at once).
Retriable == {"Timeout", "HTTPError"}
NotRetriable == {"ConnectionError"}

\* Line 51: wait_time = 2 ** attempt.
Backoff(a) == 2 ^ a

\* Line 50 off by one: attempt < max_retries.
ShouldRetryOneMore(a) == a < max_retries

\* Line 50: attempt < max_retries - 1.
ShouldRetry(a) == a < max_retries - 1

\* Line 149: page >= result['totalCount'] // page_size + 1.
IsLastPage(p, total) == p >= (total \div page_size) + 1

\* Lines 143-145: the loop calls fetch_cards_for_set for the current page;
\* fetch_with_retry starts with attempt 0.
BeginPage ==
  /\ fpc = "page"
  /\ pages' = Append(pages, page)
  /\ attempt' = 0
  /\ outcomes' = <<>>
  /\ sleeps' = <<>>
  /\ fpc' = "attempt"
  /\ UNCHANGED <<totalCount, page, ferr>>

\* Lines 44-48: the request of this attempt succeeds; the response is
\* returned.
RequestSucceeds ==
  /\ fpc = "attempt"
  /\ attempt < max_retries
  /\ outcomes' = Append(outcomes, "ok")
  /\ fpc' = "response"
  /\ UNCHANGED <<totalCount, page, pages, attempt, sleeps, ferr>>

\* Lines 49-53: a caught failure with attempts left; back off and go round.
RequestFailsRetry ==
  /\ fpc = "attempt"
  /\ attempt < max_retries
  /\ ShouldRetry(attempt)
  /\ \E e \in Retriable : outcomes' = Append(outcomes, e)
  /\ sleeps' = Append(sleeps, Backoff(attempt))
  /\ attempt' = attempt + 1
  /\ UNCHANGED <<totalCount, page, pages, fpc, ferr>>

\* Lines 49, 54-55: a caught failure of the last attempt is raised again.
RequestFailsLast ==
  /\ fpc = "attempt"
  /\ attempt < max_retries
  /\ ~ShouldRetry(attempt)
  /\ \E e \in Retriable :
       /\ outcomes' = Append(outcomes, e)
       /\ ferr' = Some(e)
  /\ fpc' = "raised"
  /\ UNCHANGED <<totalCount, page, pages, attempt, sleeps>>

\* Line 46: an exception the except clause does not name propagates.
RequestFailsOther ==
  /\ fpc = "attempt"
  /\ attempt < max_retries
  /\ \E e \in NotRetriable :
       /\ outcomes' = Append(outcomes, e)
       /\ ferr' = Some(e)
  /\ fpc' = "raised"
  /\ UNCHANGED <<totalCount, page, pages, attempt, sleeps>>

\* Lines 146-150: the page is added to all_cards and was the last one.
LastPage ==
  /\ fpc = "response"
  /\ IsLastPage(page, totalCount)
  /\ fpc' = "done"
  /\ UNCHANGED <<totalCount, page, pages, attempt, outcomes, sleeps, ferr>>

\* Lines 146-152: the page is added to all_cards and another is needed.
NextPage ==
  /\ fpc = "response"
  /\ ~IsLastPage(page, totalCount)
  /\ page' = page + 1
  /\ fpc' = "page"
  /\ UNCHANGED <<totalCount, pages, attempt, outcomes, sleeps, ferr>>

InitFetch ==
  /\ totalCount \in 0..MaxTotal
  /\ page = 1 /\ pages = <<>> /\ attempt = 0
  /\ outcomes = <<>> /\ sleeps = <<>> /\ fpc = "page" /\ ferr = None
  /\ DriverIdle /\ AggIdle /\ FilterIdle

NextFetch ==
  \/ (BeginPage /\ UNCHANGED <<driverVars, aggVars, filterVars>>)
  \/ (RequestSucceeds /\ UNCHANGED <<driverVars, aggVars, filterVars>>)
  \/ (RequestFailsRetry /\ UNCHANGED <<driverVars, aggVars, filterVars>>)
  \/ (RequestFailsLast /\ UNCHANGED <<driverVars, aggVars, filterVars>>)
  \/ (RequestFailsOther /\ UNCHANGED <<driverVars, aggVars, filterVars>>)
  \/ (LastPage /\ UNCHANGED <<driverVars, aggVars, filterVars>>)
  \/ (NextPage /\ UNCHANGED <<driverVars, aggVars, filterVars>>)

SpecFetch == InitFetch /\ [][NextFetch]_vars

(* Properties of the fetch *)

\* C4 (pagination).  Pages are requested in the order 1, 2, 3, ...; no page
\* is requested after a page q with q * page_size >= totalCount; and the
\* loop ends only at such a page.
C4_Pagination ==
  /\ \A i \in DOMAIN pages : pages[i] = i
  /\ \A i \in DOMAIN pages :
       \A q \in 1..(pages[i] - 1) : q * page_size < totalCount
  /\ fpc = "done" => page * page_size >= totalCount

----------------------------------------------------------------------------
(* The set listers: load_sets (build-sets-data.py lines 31-55) and         *)
(* fetch_all_sets (fetch-sets.py lines 57-72)                              *)

\* Bounds of the lister model: sets in the catalog, names in a list filter.
MaxCatalog == 3
MaxFilterNames == 2

SeriesNames == {"S1", "s1", "S2"}

\* A set descriptor: its id and its 'series' key, which may be missing.
Catalogs ==
  {[i \in DOMAIN f |-> [id |-> i, series |-> f[i]]] :
     f \in SeqsUpTo({None} \cup {Some(n) : n \in SeriesNames}, MaxCatalog)}

\* The caller's series_filter: None, one name, or a list of names.
SeriesFilters ==
  {[kind |-> "none"]}
    \cup {[kind |-> "str", val |-> n] : n \in SeriesNames \cup {""}}
    \cup {[kind |-> "list", val |-> l] : l \in SeqsUpTo(SeriesNames, MaxFilterNames)}

\* s.get('series', '')
SeriesOf(s) == IF s.series = None THEN "" ELSE s.series[1]

\* Python's truth value of series_filter (lines 45 and 65).
FilterGiven(f) ==
  \/ f.kind = "str" /\ f.val # ""
  \/ f.kind = "list" /\ f.val # <<>>

Returned(x) == Some([ok |-> TRUE, sets |-> x])
Raised(e) == Some([ok |-> FALSE, error |-> e])

\* build-sets-data.py lines 44-55.
LoadSetsFiltered(catalog, f) ==
  IF FilterGiven(f)
  THEN IF f.kind = "list"
       THEN Returned(SelectSeq(catalog,
              LAMBDA s : \E i \in DOMAIN f.val : SeriesOf(s) = f.val[i]))
       ELSE Returned(SelectSeq(catalog,
              LAMBDA s : StrLower(SeriesOf(s)) = StrLower(f.val)))
  ELSE Returned(catalog)

\* fetch-sets.py lines 64-72.  series_filter.lower() is evaluated once per
\* set, so a list filter raises as soon as there is a set to test.
FetchAllSetsFiltered(catalog, f) ==
  IF FilterGiven(f)
  THEN IF f.kind = "list"
       THEN IF catalog = <<>> THEN Returned(<<>>) ELSE Raised("AttributeError")
       ELSE Returned(SelectSeq(catalog,
              LAMBDA s : StrLower(SeriesOf(s)) = StrLower(f.val)))
  ELSE Returned(catalog)

\* load_sets, lines 41-55: the sets file is read and filtered.
LoadSets ==
  /\ local_sets = None
  /\ local_sets' = LoadSetsFiltered(all_sets, series_filter)
  /\ UNCHANGED <<all_sets, series_filter, remote_sets>>

\* load_sets, lines 35-39: there is no sets file.
LoadSetsFileMissing ==
  /\ local_sets = None
  /\ local_sets' = Raised("FileNotFoundError")
  /\ UNCHANGED <<all_sets, series_filter, remote_sets>>

\* fetch_all_sets, lines 59-72: the set list is fetched and filtered.
FetchAllSets ==
  /\ remote_sets = None
  /\ remote_sets' = FetchAllSetsFiltered(all_sets, series_filter)
  /\ UNCHANGED <<all_sets, series_filter, local_sets>>

\* fetch_all_sets, line 61: fetch_with_retry raised.
FetchAllSetsFails ==
  /\ remote_sets = None
  /\ \E e \in Retriable \cup NotRetriable : remote_sets' = Raised(e)
  /\ UNCHANGED <<all_sets, series_filter, local_sets>>

InitFilter ==
  /\ all_sets \in Catalogs
  /\ series_filter \in SeriesFilters
  /\ local_sets = None /\ remote_sets = None
  /\ DriverIdle /\ FetchIdle /\ AggIdle

NextFilter ==
  \/ (LoadSets /\ UNCHANGED <<driverVars, fetchVars, aggVars>>)
  \/ (LoadSetsFileMissing /\ UNCHANGED <<driverVars, fetchVars, aggVars>>)
  \/ (FetchAllSets /\ UNCHANGED <<driverVars, fetchVars, aggVars>>)
  \/ (FetchAllSetsFails /\ UNCHANGED <<driverVars, fetchVars, aggVars>>)

SpecFilter == InitFilter /\ [][NextFilter]_vars

(* Properties of the set listers *)

\* The names a filter gives: the name itself, or the elements of the list.
FilterNames(f) ==
  IF f.kind = "str" THEN {f.val}
  ELSE IF f.kind = "list" THEN Range(f.val) ELSE {}

\* The sets whose series equals one of the filter's names when case is
\* ignored, in catalog order; all sets when no filter is given (None, or
\* the empty string or list, which the listers treat as no filter).
SelectedBySeries(catalog, f) ==
  IF FilterGiven(f)
  THEN SelectSeq(catalog,
         LAMBDA s : \E n \in FilterNames(f) : StrLower(SeriesOf(s)) = StrLower(n))
  ELSE catalog

\* C5 (series filtering).  Whatever a lister returns is exactly the sets
\* whose series equals one of the filter's names under case-insensitive
\* comparison, in input order; with no filter, all sets.
C5_SeriesFilter ==
  /\ (local_sets # None /\ local_sets[1].ok)
       => local_sets[1].sets = SelectedBySeries(all_sets, series_filter)
  /\ (remote_sets # None /\ remote_sets[1].ok)
       => remote_sets[1].sets = SelectedBySeries(all_sets, series_filter)

----------------------------------------------------------------------------
(* Aggregation of one set's cards: build-sets-data.py lines 118-175        *)
(* (local) and fetch-sets.py lines 156-190 (remote)                        *)

\* str.strip(): leading and trailing whitespace removed.
RECURSIVE StripLeft(_)
StripLeft(s) ==
  IF s # "" /\ Char(s, 1) = " " THEN StripLeft(SubSeq(s, 2, Len(s))) ELSE s

RECURSIVE StripRight(_)
StripRight(s) ==
  IF s # "" /\ Char(s, Len(s)) = " " THEN StripRight(SubSeq(s, 1, Len(s) - 1))
  ELSE s

Strip(s) == StripRight(StripLeft(s))

\* str.split(): the maximal runs of non-whitespace characters.
RECURSIVE SplitWords(_, _, _)
SplitWords(s, word, done) ==
  IF s = "" THEN (IF word = "" THEN done ELSE Append(done, word))
  ELSE IF Char(s, 1) = " "
       THEN SplitWords(SubSeq(s, 2, Len(s)), "",
                       IF word = "" THEN done ELSE Append(done, word))
       ELSE SplitWords(SubSeq(s, 2, Len(s)), word \o Char(s, 1), done)

\* str.split(sep) for a one-character separator.
RECURSIVE SplitOn(_, _, _, _)
SplitOn(s, sep, part, done) ==
  IF s = "" THEN Append(done, part)
  ELSE IF Char(s, 1) = sep
       THEN SplitOn(SubSeq(s, 2, Len(s)), sep, "", Append(done, part))
       ELSE SplitOn(SubSeq(s, 2, Len(s)), sep, part \o Char(s, 1), done)

\* ' '.join(parts)
RECURSIVE JoinWords(_)
JoinWords(parts) ==
  IF parts = <<>> THEN ""
  ELSE IF Len(parts) = 1 THEN parts[1]
  ELSE parts[1] \o " " \o JoinWords(Tail(parts))

StartsWith(s, prefix) ==
  Len(s) >= Len(prefix) /\ SubSeq(s, 1, Len(prefix)) = prefix

Digits == "0123456789"

\* str(n) of an integer, as an f-string formats it.
RECURSIVE NatToStr(_)
NatToStr(n) ==
  IF n < 10 THEN Char(Digits, n + 1)
  ELSE NatToStr(n \div 10) \o Char(Digits, (n % 10) + 1)

IntToStr(n) == IF n < 0 THEN "-" \o NatToStr(0 - n) ELSE NatToStr(n)

IsDigit(c) == \E d \in 1..10 : Char(Digits, d) = c
DigitValue(c) == (CHOOSE d \in 1..10 : Char(Digits, d) = c) - 1

RECURSIVE DigitsToNat(_, _)
DigitsToNat(s, acc) ==
  IF s = "" THEN acc
  ELSE DigitsToNat(SubSeq(s, 2, Len(s)), 10 * acc + DigitValue(Char(s, 1)))

\* int(s): surrounding whitespace and one sign are accepted, then decimal
\* digits only; anything else is a ValueError (None here).
ParseInt(s) ==
  LET t == Strip(s)
      signed == t # "" /\ Char(t, 1) \in {"+", "-"}
      body == IF signed THEN SubSeq(t, 2, Len(t)) ELSE t
  IN  IF body = "" \/ \E i \in 1..Len(body) : ~IsDigit(Char(body, i))
      THEN None
      ELSE IF signed /\ Char(t, 1) = "-" THEN Some(0 - DigitsToNat(body, 0))
      ELSE Some(DigitsToNat(body, 0))

suffixes == {"ex", "gx", "v", "vmax", "vstar", "vunion"}
prefixes == {"team", "rockets", "rocket", "dark", "light", "shining", "radiant"}

\* build-sets-data.py lines 69-83.  None is <<>>.
normalize_pokemon_name(name) ==
  IF name = "" THEN None
  ELSE LET parts == SplitWords(Strip(StrLower(name)), "", <<>>)
           filtered == SelectSeq(parts,
                         LAMBDA p : p \notin suffixes /\ p \notin prefixes)
       IN  IF filtered = <<>> THEN None ELSE Some(JoinWords(filtered))

\* fetch-sets.py lines 80-96: the same function, defined a second time.
normalize_pokemon_name_remote(name) ==
  IF name = "" THEN None
  ELSE LET parts == SplitWords(Strip(StrLower(name)), "", <<>>)
           filtered == SelectSeq(parts,
                         LAMBDA p : p \notin suffixes /\ p \notin prefixes)
       IN  IF filtered = <<>> THEN None ELSE Some(JoinWords(filtered))

\* Number of occurrences of x in a sequence: list.count(x).
Count(seq, x) == Cardinality({i \in DOMAIN seq : seq[i] = x})

\* The values max(set(values), key=values.count) can return: a value of
\* maximal count; which one, among equals, follows the set's iteration
\* order, which the language does not fix.
MostCommon(values) ==
  {v \in Range(values) : \A w \in Range(values) : Count(values, w) <= Count(values, v)}

\* sorted(set_of_ints)
RECURSIVE Sorted(_)
Sorted(S) ==
  IF S = {} THEN <<>>
  ELSE LET m == CHOOSE x \in S : \A y \in S : x <= y
       IN  <<m>> \o Sorted(S \ {m})

\* The distinct values of a sequence in order of first occurrence: the key
\* order of a dict filled in that order.
RECURSIVE FirstSeen(_, _)
FirstSeen(seq, seen) ==
  IF seq = <<>> THEN seen
  ELSE FirstSeen(Tail(seq),
                 IF \E i \in DOMAIN seen : seen[i] = Head(seq) THEN seen
                 ELSE Append(seen, Head(seq)))

\* card.get('rarity', 'Common')
RarityOf(card) == IF card.rarity = None THEN "Common" ELSE card.rarity[1]

\* Bound of the aggregation model: cards in the set.
MaxCards == 2

\* Raw cards: supertype, name, rarity (the key may be missing), and
\* nationalPokedexNumbers (a missing key reads as the empty list).  The
\* card's number is its position in the set.  types, subtypes and images
\* are copied through unread and are left out.
CardNames == {"Pikachu", "Pikachu VMAX", "EX", "dex_25", "dex_foo"}
CardRarities == {None, Some(""), Some("Rare")}
CardDexNumbers == {<<>>, <<25>>, <<26, 25>>}

RawCards ==
  {[supertype |-> "Trainer", name |-> "Potion", rarity |-> None, dex |-> <<>>]}
    \cup {[supertype |-> "Pokémon", name |-> n, rarity |-> r, dex |-> d] :
            n \in CardNames, r \in CardRarities, d \in CardDexNumbers}

CardLists ==
  {[i \in DOMAIN t |->
      [supertype |-> t[i].supertype, name |-> t[i].name, number |-> IntToStr(i),
       rarity |-> t[i].rarity, dex |-> t[i].dex]] :
     t \in SeqsUpTo(RawCards, MaxCards)}

\* Lines 123 (local) and 161 (remote).
IsPokemon(card) == card.supertype = "Pokémon"

\* The grouping key taken from the normalized name alone.
LocalKeyByName(card) == normalize_pokemon_name(card.name)

\* build-sets-data.py lines 127-135: the grouping key, None when the card
\* is left out.
LocalKey(card) ==
  IF card.dex # <<>> THEN Some("dex_" \o IntToStr(card.dex[1]))
  ELSE normalize_pokemon_name(card.name)

\* build-sets-data.py lines 137-145.
LocalCardInfo(card) ==
  [card_name |-> card.name, number |-> card.number, rarity |-> RarityOf(card),
   dex_numbers |-> card.dex]

\* fetch-sets.py lines 164-166.
RemoteKey(card) == normalize_pokemon_name_remote(card.name)

\* fetch-sets.py lines 168-175.
RemoteCardInfo(card) ==
  [card_name |-> card.name, number |-> card.number, rarity |-> RarityOf(card)]

\* pokemon_cards: a dict of lists filled card by card, as the list of its
\* items in key order.  keyed is the list of (key, card_info) of the cards
\* that were kept.
GroupsOf(keyed) ==
  LET keys == FirstSeen([i \in DOMAIN keyed |-> keyed[i].key], <<>>)
  IN  [g \in DOMAIN keys |->
         [key |-> keys[g],
          cards |-> LET members == SelectSeq(keyed, LAMBDA k : k.key = keys[g])
                    IN  [i \in DOMAIN members |-> members[i].info]]]

\* build-sets-data.py lines 119-147.
LocalGroups(cardlist) ==
  LET pokemon == SelectSeq(cardlist, IsPokemon)
      keyed == [i \in DOMAIN pokemon |->
                  [key |-> LocalKey(pokemon[i]), info |-> LocalCardInfo(pokemon[i])]]
      kept == SelectSeq(keyed, LAMBDA k : k.key # None)
  IN  GroupsOf([i \in DOMAIN kept |-> [key |-> kept[i].key[1], info |-> kept[i].info]])

\* fetch-sets.py lines 157-177.
RemoteGroups(cardlist) ==
  LET pokemon == SelectSeq(cardlist, IsPokemon)
      keyed == [i \in DOMAIN pokemon |->
                  [key |-> RemoteKey(pokemon[i]), info |-> RemoteCardInfo(pokemon[i])]]
      kept == SelectSeq(keyed, LAMBDA k : k.key # None)
  IN  GroupsOf([i \in DOMAIN kept |-> [key |-> kept[i].key[1], info |-> kept[i].info]])

RaritiesOf(cards_list) == [i \in DOMAIN cards_list |-> cards_list[i].rarity]

\* build-sets-data.py lines 152-153: empty rarities are not counted.
LocalMostCommonRarity(group) ==
  LET rarities == SelectSeq(RaritiesOf(group.cards), LAMBDA r : r # "")
  IN  IF rarities = <<>> THEN {"Common"} ELSE MostCommon(rarities)

\* fetch-sets.py lines 182-183.
RemoteMostCommonRarity(group) == MostCommon(RaritiesOf(group.cards))

\* build-sets-data.py lines 156-157: int(key.split('_')[1]) of a key that
\* starts with 'dex_'; None is the ValueError of int().
LocalDexNum(key) == ParseInt(SplitOn(key, "_", "", <<>>)[2])

LocalEntryRaises(group) ==
  StartsWith(group.key, "dex_") /\ LocalDexNum(group.key) = None

\* build-sets-data.py lines 155-175, for a group that does not raise.
LocalEntry(group, rarity) ==
  LET is_dex == StartsWith(group.key, "dex_")
      pokemon_name == IF is_dex THEN group.cards[1].card_name ELSE group.key
      normalized == normalize_pokemon_name(group.cards[1].card_name)
      all_dex == UNION {Range(group.cards[i].dex_numbers) : i \in DOMAIN group.cards}
  IN  [name |-> IF normalized # None THEN normalized[1] ELSE pokemon_name,
       dex_number |-> IF is_dex THEN LocalDexNum(group.key) ELSE None,
       dex_numbers |-> Sorted(all_dex),
       rarity |-> rarity,
       card_count |-> Len(group.cards),
       cards |-> group.cards]

\* fetch-sets.py lines 185-190.
RemoteEntry(group, rarity) ==
  [name |-> group.key, rarity |-> rarity, card_count |-> Len(group.cards),
   cards |-> group.cards]

\* One rarity per group, each among the group's most common ones.
\* most_common[g] is the set of group g's most common rarities.
RarityChoices(most_common) ==
  {pick \in [DOMAIN most_common -> UNION Range(most_common)] :
     \A g \in DOMAIN most_common : pick[g] \in most_common[g]}

\* build-sets-data.py lines 118-175: what the aggregation of one set can
\* produce.  groups is pokemon_cards, kept for the properties below.
LocalResults(cardlist) ==
  LET groups == LocalGroups(cardlist)
  IN  IF \E g \in DOMAIN groups : LocalEntryRaises(groups[g])
      THEN {[ok |-> FALSE, error |-> "ValueError", groups |-> groups]}
      ELSE {[ok |-> TRUE, groups |-> groups,
             pokemon |-> [g \in DOMAIN groups |-> LocalEntry(groups[g], pick[g])]] :
              pick \in RarityChoices([g \in DOMAIN groups |->
                                         LocalMostCommonRarity(groups[g])])}

\* fetch-sets.py lines 156-190.
RemoteResults(cardlist) ==
  LET groups == RemoteGroups(cardlist)
  IN  {[ok |-> TRUE, groups |-> groups,
        pokemon |-> [g \in DOMAIN groups |-> RemoteEntry(groups[g], pick[g])]] :
         pick \in RarityChoices([g \in DOMAIN groups |->
                                    RemoteMostCommonRarity(groups[g])])}

AggregateLocal ==
  /\ local_out = None
  /\ \E r \in LocalResults(cards) : local_out' = Some(r)
  /\ UNCHANGED <<cards, remote_out>>

AggregateRemote ==
  /\ remote_out = None
  /\ \E r \in RemoteResults(cards) : remote_out' = Some(r)
  /\ UNCHANGED <<cards, local_out>>

InitAgg ==
  /\ cards \in CardLists
  /\ local_out = None /\ remote_out = None
  /\ DriverIdle /\ FetchIdle /\ FilterIdle

NextAgg ==
  \/ (AggregateLocal /\ UNCHANGED <<driverVars, fetchVars, filterVars>>)
  \/ (AggregateRemote /\ UNCHANGED <<driverVars, fetchVars, filterVars>>)

SpecAgg == InitAgg /\ [][NextAgg]_vars

(* Properties of the aggregation *)

\* Positions in the set's card list of the members of a group or entry.
MemberPositions(cards_list) ==
  {i \in DOMAIN cards :
     \E m \in DOMAIN cards_list : cards_list[m].number = cards[i].number}

\* Positions of the Pokemon cards that carry dex numbers.
DexCards == {i \in DOMAIN cards : IsPokemon(cards[i]) /\ cards[i].dex # <<>>}

\* The groups (and, when the aggregation returned, the entries) holding the
\* card at position i.
GroupsHolding(out, i) ==
  {g \in DOMAIN out.groups : i \in MemberPositions(out.groups[g].cards)}

\* C6 (identity by dex number, local aggregator).  Every Pokemon card with
\* dex numbers is in exactly one group, whatever its name; two such cards are
\* in the same group exactly when their first dex numbers are equal; when the
\* aggregation returns, the group's entry carries that first dex number as
\* dexNumber, holds the card, and has cardCount equal to its number of cards;
\* and a set of two Pokemon cards with the same first dex number yields one
\* entry with cardCount 2.
C6_IdentityByDexNumber ==
  local_out # None =>
    LET out == local_out[1] IN
    /\ \A i \in DexCards : Cardinality(GroupsHolding(out, i)) = 1
    /\ \A i, j \in DexCards :
         (cards[i].dex[1] = cards[j].dex[1])
           <=> (GroupsHolding(out, i) = GroupsHolding(out, j))
    /\ out.ok =>
         \A i \in DexCards : \A g \in GroupsHolding(out, i) :
           /\ out.pokemon[g].dex_number = Some(cards[i].dex[1])
           /\ i \in MemberPositions(out.pokemon[g].cards)
           /\ out.pokemon[g].card_count = Len(out.pokemon[g].cards)
    /\ (Len(cards) = 2 /\ DexCards = {1, 2} /\ cards[1].dex[1] = cards[2].dex[1])
         => (out.ok /\ Len(out.pokemon) = 1 /\ out.pokemon[1].card_count = 2)

\* C6 witness.  "Pikachu VMAX" and "Pikachu", both with dex number 25, aggregated into
\* one entry with dexNumber 25 and cardCount 2.
C6_Witness ==
  /\ local_out # None
  /\ Len(cards) = 2
  /\ cards[1].name = "Pikachu VMAX" /\ cards[1].dex = <<25>>
  /\ cards[2].name = "Pikachu" /\ cards[2].dex = <<25>>
  /\ local_out[1].ok
  /\ Len(local_out[1].pokemon) = 1
  /\ local_out[1].pokemon[1].dex_number = Some(25)
  /\ local_out[1].pokemon[1].card_count = 2

\* An entry's dexNumber and dexNumbers, and a card summary's dexNumbers,
\* with a field the variant does not write read as absent (empty).
EntryDexNumber(e) == IF "dex_number" \in DOMAIN e THEN e.dex_number ELSE None
EntryDexNumbers(e) == IF "dex_numbers" \in DOMAIN e THEN e.dex_numbers ELSE <<>>
SummaryDexNumbers(c) == IF "dex_numbers" \in DOMAIN c THEN c.dex_numbers ELSE <<>>

SameSummary(c, d) ==
  /\ c.card_name = d.card_name /\ c.number = d.number /\ c.rarity = d.rarity
  /\ SummaryDexNumbers(c) = SummaryDexNumbers(d)

\* Two entries agree: same name, dexNumber, dexNumbers, cardCount and cards,
\* and the same rarity unless both are among the group's most common ones
\* (the tie-break is not fixed).
SameEntry(l, r) ==
  /\ l.name = r.name
  /\ EntryDexNumber(l) = EntryDexNumber(r)
  /\ EntryDexNumbers(l) = EntryDexNumbers(r)
  /\ l.card_count = r.card_count
  /\ Len(l.cards) = Len(r.cards)
  /\ \A m \in DOMAIN l.cards : SameSummary(l.cards[m], r.cards[m])
  /\ \/ l.rarity = r.rarity
     \/ {l.rarity, r.rarity} \subseteq MostCommon(RaritiesOf(l.cards))

\* C7 (one shared aggregator).  For every card list, the remote aggregation
\* and the local aggregation both return, with the same entries in the same
\* order.
C7_SharedAggregator ==
  (local_out # None /\ remote_out # None) =>
    /\ local_out[1].ok /\ remote_out[1].ok
    /\ Len(local_out[1].pokemon) = Len(remote_out[1].pokemon)
    /\ \A g \in DOMAIN local_out[1].pokemon :
         SameEntry(local_out[1].pokemon[g], remote_out[1].pokemon[g])

\* The rarity fields of an entry's member cards, a missing one counted as
\* "Common", read from the set's card list.
MemberRarities(e) ==
  LET members == SelectSeq(cards,
                   LAMBDA c : \E m \in DOMAIN e.cards : e.cards[m].number = c.number)
  IN  [i \in DOMAIN members |-> RarityOf(members[i])]

RarityIsMode(e) ==
  /\ e.rarity # ""
  /\ \A v \in Range(MemberRarities(e)) :
       Count(MemberRarities(e), v) <= Count(MemberRarities(e), e.rarity)

\* C9 (rarity summary).  In every entry either aggregation returns, rarity
\* is not empty and no value occurs more often among the member cards'
\* rarity fields (absent counted as "Common") than it does.
C9_RaritySummary ==
  /\ (local_out # None /\ local_out[1].ok)
       => \A g \in DOMAIN local_out[1].pokemon : RarityIsMode(local_out[1].pokemon[g])
  /\ remote_out # None
       => \A g \in DOMAIN remote_out[1].pokemon : RarityIsMode(remote_out[1].pokemon[g])

\* C10 (Dex keys and Name keys apart, local aggregator).  The local
\* aggregation returns without raising; no entry holds both a card without
\* dex numbers and a card with dex numbers; and an entry of cards without
\* dex numbers has no dexNumber.
C10_DexAndNameKeysApart ==
  local_out # None =>
    /\ local_out[1].ok
    /\ \A g \in DOMAIN local_out[1].pokemon :
         LET e == local_out[1].pokemon[g]
             members == MemberPositions(e.cards)
         IN  /\ \/ \A i \in members : cards[i].dex = <<>>
                \/ \A i \in members : cards[i].dex # <<>>
             /\ (\A i \in members : cards[i].dex = <<>>) => e.dex_number = None

====
